---- MODULE Spec2Model ----
(***************************************************************************)
(* Model of the todos application: the Todo table (todos/models.py) and    *)
(* the five request handlers of todos/views.py.                            *)
(*                                                                         *)
(* Spec      one request at a time; every action is one whole handler.     *)
(* SpecConc  two requests on the same record, interleaved between the      *)
(*           fetch (get_object_or_404) and the save()/delete() of each.    *)
(***************************************************************************)
EXTENDS Integers, Sequences, FiniteSets, TLC

MaxTodos == 2      \* rows ever inserted under Spec
MaxListed == 3     \* rows ever inserted under SpecList
MaxClock == 1      \* last clock reading

VARIABLES store,      \* rows of the todos table
          now,        \* last reading of the clock (timezone.now())
          nextId,     \* next value of the table's id sequence
          response,   \* the response to the request handled last
          toggled,    \* the last request, when it was a Toggle of a row:
                      \* its pk, the completed value it found, and whether
                      \* the request before it toggled the same row (n = 2)
          deleted,    \* ids removed by a Delete POST so far
          inflight,   \* SpecConc: per worker, the request in progress
          store0      \* SpecConc: the rows before the two requests

vars == <<store, now, nextId, response, toggled, deleted, inflight, store0>>

(***************************************************************************)
(* Submitted data                                                          *)
(***************************************************************************)
\* Submitted titles: empty, blank, plain, padded on both sides, padded on
\* one side.
RawTitles == {<<>>, <<" ">>, <<"a">>, <<" ", "a", " ">>, <<"b", " ">>}
Methods == {"GET", "POST"}

\* request.POST: a field is a set holding its value, empty when the field
\* was not submitted.
NoPOST == [title |-> {}, completed |-> {}]
POSTs == [title : {{}} \cup {{t} : t \in RawTitles},
          completed : {{}, {"on"}, {"off"}}]

\* request.POST.get(key, default)
PostGet(POST, key, default) ==
    IF POST[key] = {} THEN default ELSE CHOOSE v \in POST[key] : TRUE

IsSpace(c) == c = " "

RECURSIVE lstrip(_)
lstrip(s) == IF s # <<>> /\ IsSpace(Head(s)) THEN lstrip(Tail(s)) ELSE s

RECURSIVE rstrip(_)
rstrip(s) == IF s # <<>> /\ IsSpace(s[Len(s)])
             THEN rstrip(SubSeq(s, 1, Len(s) - 1)) ELSE s

\* str.strip()
strip(s) == rstrip(lstrip(s))

CleanTitleNoStrip(POST) == PostGet(POST, "title", <<>>)

\* title = request.POST.get('title', '').strip()
CleanTitle(POST) == strip(PostGet(POST, "title", <<>>))

TitleOkAlways(title) == TRUE

\* if title:
TitleOk(title) == title # <<>>

CompletedFromPresence(POST) == POST.completed # {}

\* completed = request.POST.get('completed') == 'on'
CompletedFromPost(POST) == PostGet(POST, "completed", "None") = "on"

(***************************************************************************)
(* The Todo table                                                          *)
(***************************************************************************)
Ticks(t) == {u \in {t, t + 1} : u <= MaxClock}

NewTodoCompleted(id, title, t1, t2) ==
    [id |-> id, title |-> title, completed |-> TRUE,
     created_at |-> t1, updated_at |-> t2]

\* A new instance: completed defaults to False, auto_now_add and auto_now
\* each read the clock.
NewTodo(id, title, t1, t2) ==
    [id |-> id, title |-> title, completed |-> FALSE,
     created_at |-> t1, updated_at |-> t2]

Ids(db) == {r.id : r \in db}

Max(S) == CHOOSE m \in S : \A x \in S : x <= m

AllocIdMaxPlusOne == IF store = {} THEN 1 ELSE Max(Ids(store)) + 1

\* The id given to the next inserted row.
AllocId == nextId

\* Todo.objects.filter(pk=pk)
Lookup(db, pk) == {r \in db : r.id = pk}

auto_now_on_created(todo, t) == [todo EXCEPT !.created_at = t]

\* updated_at = DateTimeField(auto_now=True)
auto_now(todo, t) == [todo EXCEPT !.updated_at = t]

\* todo.save(): writes every field of the instance to the row with its pk,
\* and inserts the instance as a new row when no such row exists.
save(db, todo, t1, t2) ==
    IF Lookup(db, todo.id) # {}
    THEN (db \ Lookup(db, todo.id)) \cup {auto_now(todo, t1)}
    ELSE db \cup {[NewTodo(todo.id, todo.title, t1, t2)
                       EXCEPT !.completed = todo.completed]}

\* todo.delete()
delete(db, todo) == db \ Lookup(db, todo.id)

\* ordering = ['-created_at']: the rows that may come first.
First(db) == {r \in db : \A q \in db : r.created_at >= q.created_at}

\* Todo.objects.all(): every row once, in an order the ordering allows.
RECURSIVE ObjectsAll(_)
ObjectsAll(db) ==
    IF db = {} THEN {<<>>}
    ELSE UNION {{<<r>> \o s : s \in ObjectsAll(db \ {r})} : r \in First(db)}

ToggledSetTrue(todo) == [todo EXCEPT !.completed = TRUE]

\* todo.completed = not todo.completed
Toggled(todo) == [todo EXCEPT !.completed = ~todo.completed]

\* f'Todo marked as {"completed" if todo.completed else "incomplete"}!'
ToggleMessage(todo) ==
    IF todo.completed THEN "Todo marked as completed!"
    ELSE "Todo marked as incomplete!"

(***************************************************************************)
(* Responses                                                               *)
(***************************************************************************)
Success(text) == [level |-> "success", text |-> text]
Error(text) == [level |-> "error", text |-> text]

render(template, form_title, todos, notices) ==
    [status |-> 200, target |-> template, form_title |-> form_title,
     notices |-> notices, todos |-> todos]

redirect(to, notices) ==
    [status |-> 302, target |-> to, form_title |-> "",
     notices |-> notices, todos |-> <<>>]

Http404AsRedirect ==
    [status |-> 302, target |-> "todos:todo_list", form_title |-> "",
     notices |-> <<>>, todos |-> <<>>]

\* get_object_or_404 raising Http404
Http404 ==
    [status |-> 404, target |-> "", form_title |-> "",
     notices |-> <<>>, todos |-> <<>>]

NoToggle == [pk |-> 0, was |-> FALSE, n |-> 0]

Workers == {1, 2}

Idle == [pc |-> "idle", view |-> "", pk |-> 0, POST |-> NoPOST, todo |-> {}]

ConcUnchanged == UNCHANGED <<inflight, store0>>

(***************************************************************************)
(* Handlers (todos/views.py), one request at a time                        *)
(***************************************************************************)
todo_list(method) ==
    /\ \E todos \in ObjectsAll(store) :
          response' = render("todos/todo_list.html", "", todos, <<>>)
    /\ toggled' = NoToggle
    /\ UNCHANGED <<store, now, nextId, deleted>>
    /\ ConcUnchanged

todo_create(method, POST) ==
    /\ toggled' = NoToggle
    /\ IF method = "POST" /\ TitleOk(CleanTitle(POST))
       THEN /\ response' = redirect("todos:todo_list",
                                    <<Success("Todo created successfully!")>>)
            /\ nextId' = nextId + 1
            /\ \E t1 \in Ticks(now) : \E t2 \in Ticks(t1) :
                  /\ now' = t2
                  /\ store' = store \cup
                        {NewTodo(AllocId, CleanTitle(POST), t1, t2)}
       ELSE /\ response' = render("todos/todo_form.html", "Create Todo", <<>>,
                                  IF method = "POST"
                                  THEN <<Error("Title cannot be empty!")>>
                                  ELSE <<>>)
            /\ UNCHANGED <<store, now, nextId>>
    /\ UNCHANGED deleted
    /\ ConcUnchanged

todo_update(method, pk, POST) ==
    /\ toggled' = NoToggle
    /\ IF Lookup(store, pk) = {}
       THEN /\ response' = Http404
            /\ UNCHANGED <<store, now>>
       ELSE LET todo == CHOOSE r \in Lookup(store, pk) : TRUE IN
            IF method = "POST" /\ TitleOk(CleanTitle(POST))
            THEN /\ response' = redirect("todos:todo_list",
                                   <<Success("Todo updated successfully!")>>)
                 /\ \E t1 \in Ticks(now) :
                      /\ now' = t1
                      /\ store' = save(store,
                                       [todo EXCEPT
                                          !.title = CleanTitle(POST),
                                          !.completed = CompletedFromPost(POST)],
                                       t1, t1)
            ELSE /\ response' = render("todos/todo_form.html", "Edit Todo", <<>>,
                                       IF method = "POST"
                                       THEN <<Error("Title cannot be empty!")>>
                                       ELSE <<>>)
                 /\ UNCHANGED <<store, now>>
    /\ UNCHANGED <<nextId, deleted>>
    /\ ConcUnchanged

todo_delete(method, pk) ==
    /\ toggled' = NoToggle
    /\ IF Lookup(store, pk) = {}
       THEN /\ response' = Http404
            /\ UNCHANGED <<store, deleted>>
       ELSE LET todo == CHOOSE r \in Lookup(store, pk) : TRUE IN
            IF method = "POST"
            THEN /\ response' = redirect("todos:todo_list",
                                   <<Success("Todo deleted successfully!")>>)
                 /\ store' = delete(store, todo)
                 /\ deleted' = deleted \cup {pk}
            ELSE /\ response' = render("todos/todo_confirm_delete.html",
                                       "", <<>>, <<>>)
                 /\ UNCHANGED <<store, deleted>>
    /\ UNCHANGED <<now, nextId>>
    /\ ConcUnchanged

todo_toggle(method, pk) ==
    /\ IF Lookup(store, pk) = {}
       THEN /\ response' = Http404
            /\ toggled' = NoToggle
            /\ UNCHANGED <<store, now>>
       ELSE LET row == CHOOSE r \in Lookup(store, pk) : TRUE
                todo == Toggled(row)
            IN
            /\ toggled' = [pk |-> pk, was |-> row.completed,
                           n |-> IF toggled.pk = pk THEN 2 ELSE 1]
            /\ response' = redirect("todos:todo_list",
                                    <<Success(ToggleMessage(todo))>>)
            /\ \E t1 \in Ticks(now) :
                  /\ now' = t1
                  /\ store' = save(store, todo, t1, t1)
    /\ UNCHANGED <<nextId, deleted>>
    /\ ConcUnchanged

Init ==
    /\ store = {}
    /\ now = 0
    /\ nextId = 1
    /\ response = render("todos/todo_list.html", "", <<>>, <<>>)
    /\ toggled = NoToggle
    /\ deleted = {}
    /\ inflight = [w \in Workers |-> Idle]
    /\ store0 = {}

\* A Create POST that inserts a row.
Inserts(method, POST) == method = "POST" /\ TitleOk(CleanTitle(POST))

\* todo_create reads the title alone.
CreatePOSTs == {P \in POSTs : P.completed = {}}

\* The ids requested: those given out so far and 0, which never has a row.
Requested == 0..(nextId - 1)

\* A body that would change any row; a request for an id without a row is
\* answered before its body is read.
FullPOST == [title |-> {<<"b", " ">>}, completed |-> {"on"}]

\* todo_list and todo_toggle never read request.method, so one method stands
\* for both.
Next ==
    \/ todo_list("GET")
    \/ todo_create("GET", NoPOST)
    \/ \E P \in CreatePOSTs :
          /\ Inserts("POST", P) => nextId <= MaxTodos
          /\ todo_create("POST", P)
    \/ \E pk \in Requested : todo_update("GET", pk, NoPOST)
    \/ \E pk \in Ids(store), P \in POSTs : todo_update("POST", pk, P)
    \/ \E pk \in Requested \ Ids(store) : todo_update("POST", pk, FullPOST)
    \/ \E m \in Methods, pk \in Requested : todo_delete(m, pk)
    \/ \E pk \in Requested : todo_toggle("GET", pk)

Spec == Init /\ [][Next]_vars

\* The same handlers with one title to submit and room for three rows.
ListPOSTs == [title : {{<<"a">>}}, completed : {{}, {"on"}}]

NextList ==
    \/ todo_list("GET")
    \/ \E P \in ListPOSTs : nextId <= MaxListed /\ todo_create("POST", P)
    \/ \E pk \in 1..MaxListed, P \in ListPOSTs : todo_update("POST", pk, P)
    \/ \E pk \in 1..MaxListed : todo_delete("POST", pk)
    \/ \E pk \in 1..MaxListed : todo_toggle("GET", pk)

SpecList == Init /\ [][NextList]_vars

(***************************************************************************)
(* Two requests on the same row, each a worker of the server: its fetch    *)
(* and its save()/delete() are separate steps with nothing held between.   *)
(***************************************************************************)
\* Update POST, Delete POST and Toggle of the row InitConc starts with.
ConcRequests ==
    {[view |-> "update", pk |-> 1, POST |-> P] : P \in POSTs}
        \cup {[view |-> "delete", pk |-> 1, POST |-> NoPOST],
              [view |-> "toggle", pk |-> 1, POST |-> NoPOST]}

\* todo = get_object_or_404(Todo, pk=pk)
Fetch(w, req) ==
    /\ inflight[w].pc = "idle"
    /\ inflight' = [inflight EXCEPT ![w] =
          IF Lookup(store, req.pk) = {}
          THEN [pc |-> "done", view |-> req.view, pk |-> req.pk,
                POST |-> req.POST, todo |-> {}]
          ELSE [pc |-> "fetched", view |-> req.view, pk |-> req.pk,
                POST |-> req.POST, todo |-> Lookup(store, req.pk)]]
    /\ UNCHANGED <<store, now, nextId, response, toggled, deleted, store0>>

\* The rest of the handler, on the instance fetched earlier.
Finish(w) ==
    /\ inflight[w].pc = "fetched"
    /\ LET todo == CHOOSE r \in inflight[w].todo : TRUE
           POST == inflight[w].POST
           view == inflight[w].view
           written ==
               IF view = "update"
               THEN [todo EXCEPT !.title = CleanTitle(POST),
                                 !.completed = CompletedFromPost(POST)]
               ELSE Toggled(todo)
       IN
       IF view = "delete"
       THEN /\ store' = delete(store, todo)
            /\ UNCHANGED now
       ELSE IF view = "update" /\ ~TitleOk(CleanTitle(POST))
       THEN UNCHANGED <<store, now>>
       ELSE \E t1 \in Ticks(now) : \E t2 \in Ticks(t1) :
               /\ store' = save(store, written, t1, t2)
               /\ now' = IF Lookup(store, todo.id) # {} THEN t1 ELSE t2
    /\ inflight' = [inflight EXCEPT ![w].pc = "done"]
    /\ UNCHANGED <<nextId, response, toggled, deleted, store0>>

InitConc ==
    /\ \E c \in BOOLEAN :
          store = {[NewTodo(1, <<"a">>, 0, 0) EXCEPT !.completed = c]}
    /\ store0 = store
    /\ now = 0
    /\ nextId = 2
    /\ response = render("todos/todo_list.html", "", <<>>, <<>>)
    /\ toggled = NoToggle
    /\ deleted = {}
    /\ inflight = [w \in Workers |-> Idle]

NextConc ==
    \/ \E w \in Workers, req \in ConcRequests : Fetch(w, req)
    \/ \E w \in Workers : Finish(w)

SpecConc == InitConc /\ [][NextConc]_vars

\* What one whole request does to the rows, timestamps aside.
Serial(req, db) ==
    IF Lookup(db, req.pk) = {} THEN db
    ELSE LET todo == CHOOSE r \in Lookup(db, req.pk) : TRUE IN
         IF req.view = "delete" THEN delete(db, todo)
         ELSE IF req.view = "toggle" THEN save(db, Toggled(todo), 0, 0)
         ELSE IF TitleOk(CleanTitle(req.POST))
         THEN save(db, [todo EXCEPT !.title = CleanTitle(req.POST),
                                    !.completed = CompletedFromPost(req.POST)],
                   0, 0)
         ELSE db

Fields(db) == {[id |-> r.id, title |-> r.title, completed |-> r.completed] : r \in db}

ReqOf(w) == [view |-> inflight[w].view, pk |-> inflight[w].pk,
             POST |-> inflight[w].POST]

(***************************************************************************)
(* Properties                                                              *)
(***************************************************************************)
AnyPk == 0..MaxListed
Submitted(P) == PostGet(P, "title", <<>>)
Trimmed(P) == strip(Submitted(P))
GoodPOSTs == {P \in POSTs : Trimmed(P) # <<>>}
BadPOSTs == {P \in POSTs : Trimmed(P) = <<>>}
Row(db, pk) == CHOOSE r \in Lookup(db, pk) : TRUE
RedirectsToList(resp) == resp.status = 302 /\ resp.target = "todos:todo_list"
OneNotice(resp, level, text) ==
    resp.notices = <<[level |-> level, text |-> text]>>
Rejected ==
    /\ store' = store
    /\ response'.status = 200
    /\ response'.target = "todos/todo_form.html"
    /\ OneNotice(response', "error", "Title cannot be empty!")

\* C1: a Create POST whose title is non-empty after trimming adds exactly
\* one row, with an id no row has or had, the trimmed title and
\* completed = FALSE, leaves the other rows as they were, redirects to the
\* list with the one notice 'Todo created successfully!', and every listing
\* of the rows afterwards holds the new row.
C1_CreateInsertsOne ==
    [][\A P \in GoodPOSTs :
          todo_create("POST", P) =>
              \E r \in store' :
                 /\ r \notin store
                 /\ store' = store \cup {r}
                 /\ Cardinality(store') = Cardinality(store) + 1
                 /\ r.id \notin Ids(store) \cup deleted
                 /\ r.title = Trimmed(P)
                 /\ r.completed = FALSE
                 /\ RedirectsToList(response')
                 /\ OneNotice(response', "success", "Todo created successfully!")
                 /\ \A l \in ObjectsAll(store') :
                       \E i \in 1..Len(l) : l[i] = r]_vars

\* A second row was created from a padded title while the first was there.
C1_Witness ==
    /\ OneNotice(response, "success", "Todo created successfully!")
    /\ Cardinality(store) = 2
    /\ \E r \in store : r.id = nextId - 1 /\ r.title = <<"b">> /\ ~r.completed

\* C2: a Create POST or an Update POST of an existing row whose title is
\* missing, empty or blank leaves every row as it was, whatever the
\* 'completed' field says, and answers 200 with the form and the one error
\* notice 'Title cannot be empty!'.
C2_EmptyTitleRejected ==
    [][\A P \in BadPOSTs :
          /\ todo_create("POST", P) => Rejected
          /\ \A pk \in Ids(store) :
                todo_update("POST", pk, P) => Rejected]_vars

\* An Update was rejected while a completed row was in the table.
C2_Witness ==
    /\ response.form_title = "Edit Todo"
    /\ OneNotice(response, "error", "Title cannot be empty!")
    /\ \E r \in store : r.completed

\* C3: an Update POST of an existing row with a title non-empty after
\* trimming sets the row's title to the trimmed title and its completed to
\* (the 'completed' field is 'on'), keeps its id and created_at, leaves the
\* other rows and the row count as they were, and redirects to the list with
\* the one notice 'Todo updated successfully!'.
C3_UpdateOverwrites ==
    [][\A pk \in Ids(store), P \in GoodPOSTs :
          todo_update("POST", pk, P) =>
              \E new \in store' :
                 /\ new.id = pk
                 /\ new.title = Trimmed(P)
                 /\ new.completed = (P.completed = {"on"})
                 /\ new.created_at = Row(store, pk).created_at
                 /\ store' \ {new} = store \ {Row(store, pk)}
                 /\ Cardinality(store') = Cardinality(store)
                 /\ RedirectsToList(response')
                 /\ OneNotice(response', "success", "Todo updated successfully!")]_vars

\* An Update went through, after the row's creation, next to another row.
C3_Witness ==
    /\ OneNotice(response, "success", "Todo updated successfully!")
    /\ Cardinality(store) = 2
    /\ \E r \in store : r.title = <<"b">> /\ r.created_at < r.updated_at

\* C4: a Toggle of an existing row negates its completed, keeps its title
\* and id and the other rows, redirects to the list with one success notice
\* naming the new state, and when the request before it was a Toggle of the
\* same row, completed is back at the value that one found.
C4_ToggleInvolution ==
    [][\A m \in Methods, pk \in Ids(store) :
          todo_toggle(m, pk) =>
              \E new \in store' :
                 /\ new.id = pk
                 /\ new.completed = ~Row(store, pk).completed
                 /\ new.title = Row(store, pk).title
                 /\ store' \ {new} = store \ {Row(store, pk)}
                 /\ toggled.pk = pk => new.completed = toggled.was
                 /\ RedirectsToList(response')
                 /\ OneNotice(response', "success",
                              IF new.completed
                              THEN "Todo marked as completed!"
                              ELSE "Todo marked as incomplete!")]_vars

\* Two Toggles in a row of one of two rows.
C4_Witness ==
    /\ toggled.n = 2
    /\ Cardinality(store) = 2
    /\ OneNotice(response, "success", "Todo marked as incomplete!")

\* C5: a Delete POST of an existing row removes that row and no other; the
\* ids deleted so far have no row in any later state, no Create gives one of
\* them to its new row, and every Update, Delete and Toggle of one of them
\* answers 404.
C5_DeletedStaysAbsent ==
    /\ [](\A pk \in deleted : Lookup(store, pk) = {})
    /\ [][/\ \A pk \in Ids(store) :
               todo_delete("POST", pk) =>
                  /\ store' = store \ {Row(store, pk)}
                  /\ Lookup(store', pk) = {}
                  /\ pk \in deleted'
          /\ \A P \in POSTs :
               todo_create("POST", P) =>
                  \A r \in store' \ store : r.id \notin deleted
          /\ \A pk \in deleted, m \in Methods, P \in POSTs :
               (todo_update(m, pk, P) \/ todo_delete(m, pk) \/ todo_toggle(m, pk))
                  => response'.status = 404]_vars

\* A row was created after the deletion of another.
C5_Witness ==
    /\ deleted # {}
    /\ OneNotice(response, "success", "Todo created successfully!")
    /\ \E r \in store : \A pk \in deleted : r.id > pk

\* C6: an Update, Delete or Toggle, GET or POST, of an id that has no row
\* answers 404, signals no notice and leaves every row as it was.
C6_MissingIdIs404 ==
    [][\/ response'.status = 404 /\ response'.notices = <<>> /\ store' = store
       \/ ~ \E pk \in AnyPk \ Ids(store) :
              \/ \E m \in Methods : todo_delete(m, pk) \/ todo_toggle(m, pk)
              \/ todo_update("GET", pk, NoPOST)
              \/ \E P \in POSTs : todo_update("POST", pk, P)]_vars

\* A request for a missing id was answered while the table held a row and
\* had lost one.
C6_Witness ==
    /\ response.status = 404
    /\ store # {}
    /\ deleted # {}

\* C7: a List of three rows created one after the other, none deleted,
\* returns them newest first: the third, the second, the first.
C7_NewestFirst ==
    (/\ response.target = "todos/todo_list.html"
     /\ Len(response.todos) = 3
     /\ deleted = {})
        => [i \in 1..3 |-> response.todos[i].id] = <<3, 2, 1>>

\* C8: every stored title is non-empty, not blank, and its own trimmed form.
C8_TitlesTrimmed ==
    \A r \in store :
       /\ r.title # <<>>
       /\ \E i \in 1..Len(r.title) : ~IsSpace(r.title[i])
       /\ strip(r.title) = r.title

\* A row whose title was submitted with padding, after an Update.
C8_Witness ==
    /\ OneNotice(response, "success", "Todo updated successfully!")
    /\ \E r \in store : r.title = <<"a">>
    /\ \E r \in store : r.title = <<"b">>

\* C9: with a clock that never goes backwards, created_at <= updated_at in
\* every row; Create takes both from the clock; an Update POST that goes
\* through and every Toggle set updated_at to the clock's reading and keep
\* created_at; a rejected Update and the GETs of List, Create, Update and
\* Delete change no row.
C9_Timestamps ==
    /\ [](\A r \in store : r.created_at <= r.updated_at)
    /\ [][/\ now <= now'
          /\ \A P \in GoodPOSTs :
               todo_create("POST", P) =>
                  \A r \in store' \ store :
                     now <= r.created_at /\ r.updated_at = now'
          /\ \A pk \in Ids(store), P \in GoodPOSTs :
               todo_update("POST", pk, P) =>
                  \E new \in store' :
                     /\ new.id = pk
                     /\ new.updated_at = now'
                     /\ new.created_at = Row(store, pk).created_at
          /\ \A pk \in Ids(store), m \in Methods :
               todo_toggle(m, pk) =>
                  \E new \in store' :
                     /\ new.id = pk
                     /\ new.updated_at = now'
                     /\ new.created_at = Row(store, pk).created_at
          /\ \/ store' = store
             \/ ~ \/ \E pk \in AnyPk, P \in BadPOSTs : todo_update("POST", pk, P)
                  \/ \E pk \in AnyPk : todo_update("GET", pk, NoPOST)
                  \/ \E pk \in AnyPk : todo_delete("GET", pk)
                  \/ todo_create("GET", NoPOST)
                  \/ todo_list("GET")]_vars

\* A Toggle refreshed updated_at of a row created at an earlier reading.
C9_Witness ==
    /\ toggled.pk # 0
    /\ \E r \in store :
          r.id = toggled.pk /\ r.created_at < r.updated_at /\ r.updated_at = now

\* C10: when both requests are done, the rows are what running the two
\* requests one after the other, in one of the two orders, leaves.
C10_Serializable ==
    (\A w \in Workers : inflight[w].pc = "done") =>
        Fields(store) \in
            {Fields(Serial(ReqOf(2), Serial(ReqOf(1), store0))),
             Fields(Serial(ReqOf(1), Serial(ReqOf(2), store0)))}
====
